---- MODULE Spec2Model ----
(***************************************************************************)
(* Payment-webhook reconciliation of Social Transformer.                   *)
(*                                                                         *)
(* The model follows api/stripe-webhook-simplified.ts (the webhook         *)
(* handler), api/utils/appwrite.ts (identity helpers),                     *)
(* api/reconcile-subscription.ts (the pull endpoint) and the free-tier     *)
(* enforcement of the chat endpoint in api/extract.ts.  One handler        *)
(* invocation is a process; it takes one step per awaited call, so that    *)
(* invocations interleave exactly where the edge runtime lets them.        *)
(***************************************************************************)
EXTENDS Integers, Sequences, FiniteSets, Bags, TLC

(***************************************************************************)
(* Bounds of the model.                                                    *)
(***************************************************************************)
\* number of webhook requests the processor sends in one behaviour
MaxDeliveries == 3
\* number of calls of the reconcile endpoint in one behaviour
MaxReconciles == 1

\* number of store, processor and mail calls that fail in one behaviour
MaxFaults == 1
\* handler invocations that may be in flight at the same time
NumProcs == 2
\* number of requests the chat endpoint receives in one day
MaxChats == 4
\* number of documents the subscriptions collection holds before a call of the
\* reconcile endpoint, in the scenarios that start from a filled collection
MaxStored == 3
\* the last reading of Date.now() in one behaviour, in milliseconds
MaxClock == 7
\* number of calls of checkRateLimit in one behaviour
MaxCalls == 6
\* the limit the caller passes: maxRequests calls per windowMs milliseconds,
\* and the interval between two prunes of the store, on the model's clock
MaxRequests == 2
WindowMs == 3
PruneInterval == 4

Procs == 1..NumProcs

None == "none"

(***************************************************************************)
(* Configuration and the processor's vocabulary.                           *)
(***************************************************************************)
\* process.env.STRIPE_MONTHLY_PRICE_ID / STRIPE_YEARLY_PRICE_ID
monthlyPriceId == "price_monthly"
yearlyPriceId == "price_yearly"
\* a price id that is not configured
OtherPriceId == "price_other"

\* CORRECT_PRICES
MonthlyAmount == 2900
YearlyAmount == 29900
CORRECT_PRICES == [monthly |-> MonthlyAmount, yearly |-> YearlyAmount]

\* Stripe.Subscription.Status, the values customer.subscription.updated reports
StripeStatuses ==
  {"active", "past_due", "canceled", "trialing", "unpaid", "incomplete"}

\* interface Subscription, status: the values the app declares for a document
SubscriptionStatus == {"trial", "active", "canceled", "past_due"}

Emails == {"a@example.com", "b@example.com"}

\* the e-mail address the processor holds for a customer id
CustomerEmail ==
  ("cus_a" :> "a@example.com") @@ ("cus_b" :> "b@example.com") @@
  ("cus_anon" :> None)
Customers == DOMAIN CustomerEmail

\* ids of the identities that sign up through the app (Auth), by e-mail;
\* the other customers get an identity only from the webhook
AppUserId == ("a@example.com" :> "user_a")
\* ids ID.unique() generates when the webhook creates an identity, by e-mail
NewUserId == ("a@example.com" :> "new_a") @@ ("b@example.com" :> "new_b")

SubscriptionIds == {"sub_1", "sub_2"}

EventTypes ==
  {"checkout.session.completed", "customer.subscription.updated",
   "customer.subscription.deleted", "invoice.paid", "invoice.payment_failed",
   "charge.succeeded"}

(***************************************************************************)
(* Events.  Every event carries the same fields; the ones its type does    *)
(* not have are None (amount_total: 0).                                    *)
(***************************************************************************)
CheckoutEvent(id, customer, price, amount, ref, mode, sub, currency) ==
  [id |-> id, type |-> "checkout.session.completed", customer |-> customer,
   price |-> price, amount_total |-> amount, client_reference_id |-> ref,
   mode |-> mode,
   subscription |-> IF mode = "subscription" THEN sub ELSE None,
   payment_intent |-> IF mode = "subscription" THEN None ELSE "pi_1",
   currency |-> currency, status |-> None, item_period |-> None]

SubscriptionEvent(id, type, sub, status, period) ==
  [id |-> id, type |-> type, customer |-> None, price |-> None,
   amount_total |-> 0, client_reference_id |-> None, mode |-> None,
   subscription |-> sub, payment_intent |-> None, currency |-> None,
   status |-> status, item_period |-> period]

\* the events of the scenarios with several deliveries
Catalogue ==
  { CheckoutEvent("evt_co1", "cus_a", monthlyPriceId, MonthlyAmount, None,
                  "subscription", "sub_1", "eur"),
    CheckoutEvent("evt_co2", "cus_a", yearlyPriceId, MonthlyAmount, None,
                  "subscription", "sub_2", None),
    CheckoutEvent("evt_co3", "cus_b", OtherPriceId, YearlyAmount, "user_a",
                  "payment", None, "usd"),
    CheckoutEvent("evt_co4", "cus_b", monthlyPriceId, MonthlyAmount, None,
                  "subscription", "sub_2", "eur"),
    SubscriptionEvent("evt_up1", "customer.subscription.updated", "sub_1",
                      "past_due", "reported"),
    SubscriptionEvent("evt_up2", "customer.subscription.updated", "sub_1",
                      "active", None),
    SubscriptionEvent("evt_del1", "customer.subscription.deleted", "sub_1",
                      "canceled", None),
    SubscriptionEvent("evt_paid1", "invoice.paid", "sub_1", None, None),
    SubscriptionEvent("evt_fail1", "invoice.payment_failed", "sub_1", None,
                      None),
    SubscriptionEvent("evt_other", "charge.succeeded", None, None, None) }

\* the events of the scenarios with overlapping deliveries
Core ==
  { e \in Catalogue :
      e.id \in {"evt_co1", "evt_co2", "evt_up1", "evt_del1", "evt_paid1",
                "evt_fail1"} }

\* every shape a checkout.session.completed event can have
AllCheckouts ==
  { CheckoutEvent("evt_x", c, pr, am, ref, mode, "sub_1", cur) :
      c \in {None, "cus_a", "cus_anon"},
      pr \in {None, monthlyPriceId, yearlyPriceId, OtherPriceId},
      am \in {0, 100, MonthlyAmount, YearlyAmount},
      ref \in {None, "user_a"},
      mode \in {"subscription", "payment"},
      cur \in {None, "usd"} }

\* every shape an event of another type can have
AllOthers ==
  { SubscriptionEvent("evt_x", "customer.subscription.updated", s, st, per) :
      s \in SubscriptionIds, st \in StripeStatuses, per \in {None, "reported"} }
  \cup
  { SubscriptionEvent("evt_x", ty, s, None, None) :
      ty \in {"customer.subscription.deleted", "invoice.paid",
              "invoice.payment_failed", "charge.succeeded"},
      s \in SubscriptionIds \cup {None} }

AllEvents == AllCheckouts \cup AllOthers

\* the id of the customer.subscription.updated event that reports a status
StatusEventId ==
  [active |-> "evt_up2", past_due |-> "evt_up1", canceled |-> "evt_up3",
   trialing |-> "evt_up4", unpaid |-> "evt_up5", incomplete |-> "evt_up6"]

\* the events of one subscription's life: its checkout, every status the
\* processor can report for it, its invoices and its cancellation (sent twice,
\* as two events)
Lifecycle ==
  { e \in Catalogue : e.id \in {"evt_co1", "evt_del1", "evt_paid1", "evt_fail1"} }
  \cup
  { SubscriptionEvent(StatusEventId[st], "customer.subscription.updated",
                      "sub_1", st, "reported") : st \in StripeStatuses }
  \cup
  { SubscriptionEvent("evt_del2", "customer.subscription.deleted", "sub_1",
                      "canceled", None) }

EventIds == { e.id : e \in Catalogue \cup AllEvents \cup Lifecycle }


NoEvent == SubscriptionEvent(None, None, None, None, None)

(***************************************************************************)
(* State.                                                                  *)
(***************************************************************************)
VARIABLES
  stripeEvents,     \* the events the processor holds and may (re)deliver
  stripeConfigured, \* STRIPE_SECRET_KEY and STRIPE_WEBHOOK_SECRET are set
  ledger,           \* collection processed_webhooks, a bag of documents
  subs,             \* collection subscriptions; a document's $id is its index
  anomalies,        \* collection webhook_anomalies, a bag of documents
  users,            \* identity store: e-mail -> id of the identity, or None
  inv,              \* the handler invocations: position and local variables
  deliveries,       \* number of webhook requests received so far
  faults,           \* number of calls that have failed so far
  applied,          \* history: Subscription writes per event id and ledger outcome
  reconciled,       \* reconcile endpoint: number of calls and last response
  chat,             \* chat endpoint: generation_usage today and its invocations
  limiter           \* utils/rateLimit.ts: store, lastPrune, the clock, history

vars ==
  <<stripeEvents, stripeConfigured, ledger, subs, anomalies, users, inv,
    deliveries, faults, applied, reconciled, chat, limiter>>

\* local variables of an invocation that has not received a request
Idle ==
  [pc |-> "idle", method |-> None, signature |-> None, event |-> NoEvent,
   resp |-> None, recorded |-> None, userId |-> None, interval |-> None,
   existing |-> 0, lookedUp |-> FALSE, createdUser |-> FALSE, wrote |-> FALSE,
   mail |-> None, logErr |-> {}, hadIdentity |-> FALSE, retry |-> FALSE,
   redelivery |-> FALSE]

InFlight(p) == inv[p].pc \notin {"idle", "done"}

NoWrites == [k \in EventIds \X {"ok", "conflict", "error"} |-> 0]

\* local variables of an invocation of the chat endpoint without a request
IdleChat == [pc |-> "idle", isPremium |-> FALSE, resp |-> None]

\* no generation today, no request to the chat endpoint yet
NoChat ==
  [usage |-> 0, served |-> 0, requests |-> 0, req |-> [c \in Procs |-> IdleChat]]

\* the keys under which requests are counted: `extract:${ip}`
RateKeys == {"extract:ip_1", "extract:ip_2"}

\* module load: an empty store, lastPrune = Date.now(); no call yet
NoLimiter ==
  [store |-> <<>>, lastPrune |-> 0, now |-> 0, calls |-> 0,
   result |-> [key |-> None, limited |-> FALSE, retryAfterSeconds |-> 0],
   allowed |-> [k \in RateKeys |-> [t \in 0..MaxClock |-> 0]]]

\* empty collections, no identity, no request yet
Fresh ==
  /\ ledger = EmptyBag
  /\ subs = <<>>
  /\ anomalies = EmptyBag
  /\ users = [e \in Emails |-> None]
  /\ inv = [p \in Procs |-> Idle]
  /\ deliveries = 0
  /\ faults = 0
  /\ applied = NoWrites
  /\ reconciled = [calls |-> 0, user |-> None, activated |-> 0]
  /\ chat = NoChat
  /\ limiter = NoLimiter

Init ==
  /\ stripeEvents = Core
  /\ stripeConfigured \in BOOLEAN
  /\ Fresh

\* the outcome of a call to the store, the processor or the mail service
Call(ok) ==
  /\ ok \/ faults < MaxFaults
  /\ faults' = IF ok THEN faults ELSE faults + 1

NoCall == UNCHANGED faults

\* the slot a new invocation takes
FirstFree(p) == ~InFlight(p) /\ \A q \in Procs : q < p => InFlight(q)

\* the handler returns: the invocation ends with response r
Respond(p, r) == inv' = [inv EXCEPT ![p].pc = "done", ![p].resp = r]

(***************************************************************************)
(* The environment: a visitor signs up through the app.                    *)
(***************************************************************************)
SignUp(email) ==
  /\ email \in DOMAIN AppUserId
  /\ users[email] = None
  /\ users' = [users EXCEPT ![email] = AppUserId[email]]
  /\ UNCHANGED <<stripeEvents, stripeConfigured, ledger, subs, anomalies, inv,
                 deliveries, faults, applied, reconciled, chat, limiter>>

\* a checkout session carries the id of the signed-in user who opened it
RefRegistered(e) ==
  \/ e.client_reference_id = None
  \/ \E m \in Emails : users[m] = e.client_reference_id

(***************************************************************************)
(* handler: request validation and signature verification.                 *)
(***************************************************************************)
FirstStep(type) ==
  CASE type = "checkout.session.completed" -> "checkout"
    [] type = "customer.subscription.updated" -> "sub_query"
    [] type = "customer.subscription.deleted" -> "sub_query"
    [] type = "invoice.paid" -> "sub_query"
    [] OTHER -> "ack"

\* mutant: only the presence of the signature header is checked
VerdictHeaderOnly(method, configured, signature) ==
  IF method # "POST" THEN "405"
  ELSE IF ~configured THEN "500 config"
  ELSE IF signature = None THEN "400"
  ELSE "accept"

\* mutant: the signature is checked before the configuration
VerdictSignatureFirst(method, configured, signature) ==
  IF method # "POST" THEN "405"
  ELSE IF signature # "valid" THEN "400"
  ELSE IF ~configured THEN "500 config"
  ELSE "accept"

\* the response that rejects the request, or "accept"
Verdict(method, configured, signature) ==
  IF method # "POST" THEN "405"
  ELSE IF ~configured THEN "500 config"
  ELSE IF signature = None THEN "400"
  ELSE IF signature # "valid" THEN "400"
  ELSE "accept"

\* mutant: the type-specific handler starts without the ledger insert
ReceiveSkippingLedger(p, method, signature, e) ==
  /\ FirstFree(p)
  /\ deliveries < MaxDeliveries
  /\ deliveries' = deliveries + 1
  /\ LET req == [Idle EXCEPT !.method = method, !.signature = signature]
         verdict == Verdict(method, stripeConfigured, signature)
     IN  IF verdict # "accept"
           THEN inv' = [inv EXCEPT ![p] = [req EXCEPT !.pc = "done", !.resp = verdict]]
           ELSE /\ RefRegistered(e)
                /\ inv' = [inv EXCEPT ![p] = [req EXCEPT !.pc = FirstStep(e.type),
                                                         !.event = e]]
  /\ UNCHANGED <<stripeEvents, stripeConfigured, ledger, subs, anomalies,
                 users, faults, applied, reconciled, chat, limiter>>

\* history: the processor sends e again because a delivery of e was answered
\* with the 500 of the handler's catch block
RetryOf(e) ==
  \E q \in Procs :
    inv[q].pc = "done" /\ inv[q].event.id = e.id /\ inv[q].resp = "500"

\* history: an earlier delivery of the event was acknowledged
RedeliveryOf(e) ==
  \E q \in Procs :
    /\ inv[q].pc = "done" /\ inv[q].event.id = e.id
    /\ inv[q].resp \in {"200", "200 duplicate"}

Receive(p, method, signature, e) ==
  /\ FirstFree(p)
  /\ deliveries < MaxDeliveries
  /\ deliveries' = deliveries + 1
  /\ LET req == [Idle EXCEPT !.method = method, !.signature = signature]
         verdict == Verdict(method, stripeConfigured, signature)
     IN  IF verdict # "accept"
           THEN inv' = [inv EXCEPT ![p] = [req EXCEPT !.pc = "done", !.resp = verdict]]
           ELSE /\ RefRegistered(e)
                /\ inv' = [inv EXCEPT ![p] = [req EXCEPT !.pc = "ledger", !.event = e,
                                                         !.retry = RetryOf(e),
                                                         !.redelivery = RedeliveryOf(e)]]
  /\ UNCHANGED <<stripeEvents, stripeConfigured, ledger, subs, anomalies,
                 users, faults, applied, reconciled, chat, limiter>>

(***************************************************************************)
(* handler: idempotency protection.                                        *)
(***************************************************************************)
Recorded(id) == \E d \in BagToSet(ledger) : d.event_id = id

\* mutant: the catch block does not look for the uniqueness conflict
AfterInsertIgnoringConflict(outcome, type) == FirstStep(type)

\* mutant: every failure of the insert ends the request as a duplicate
AfterInsertFailClosed(outcome, type) ==
  IF outcome # "ok" THEN "done" ELSE FirstStep(type)

\* what the catch block does with the outcome of the insert
AfterInsert(outcome, type) ==
  IF outcome = "conflict" THEN "done" ELSE FirstStep(type)

LedgerInsert(p, outcome) ==
  /\ inv[p].pc = "ledger"
  /\ Call(outcome # "error")
  /\ LET e == inv[p].event
     IN  /\ outcome = "ok" => ~Recorded(e.id)
         /\ outcome = "conflict" => Recorded(e.id)
         /\ ledger' = IF outcome = "ok"
                        THEN ledger (+) SetToBag({[event_id |-> e.id, event_type |-> e.type]})
                        ELSE ledger
         /\ inv' = [inv EXCEPT ![p].recorded = outcome,
                               ![p].pc = AfterInsert(outcome, e.type),
                               ![p].resp = IF AfterInsert(outcome, e.type) = "done"
                                             THEN "200 duplicate" ELSE None]
  /\ UNCHANGED <<stripeEvents, stripeConfigured, subs, anomalies, users,
                 deliveries, applied, reconciled, chat, limiter>>

(***************************************************************************)
(* handler: checkout.session.completed.                                    *)
(***************************************************************************)
Others == <<stripeEvents, stripeConfigured, deliveries, reconciled, chat, limiter>>

\* mutant: a session without an amount is processed
MissingSessionDataButAmount(e) ==
  e.customer = None \/ e.price = None

\* !customerId || !priceId || !amount
MissingSessionData(e) ==
  e.customer = None \/ e.price = None \/ e.amount_total = 0

\* mutant: the customer's e-mail is tried before the client reference
ResolveViaEmailFirst(clientReferenceId, email) ==
  IF email # None THEN "lookup"
  ELSE IF clientReferenceId # None THEN "interval"
  ELSE "done"

\* mutant: the check "if (!userId) break" is missing
ResolveViaUnchecked(clientReferenceId, email) ==
  IF clientReferenceId # None THEN "interval"
  ELSE IF email # None THEN "lookup"
  ELSE "interval"

\* let userId = clientReferenceId; if (!userId && customer.email) ...;
\* if (!userId) break: where the handler goes once it has the customer
ResolveVia(clientReferenceId, email) ==
  IF clientReferenceId # None THEN "interval"
  ELSE IF email # None THEN "lookup"
  ELSE "done"

\* stripe.customers.retrieve, then the choice between the three ways to a user
RetrieveCustomer(p, ok) ==
  /\ inv[p].pc = "checkout"
  /\ IF MissingSessionData(inv[p].event) THEN ok /\ NoCall ELSE Call(ok)
  /\ LET e == inv[p].event
     IN  IF MissingSessionData(e) THEN Respond(p, "200")
         ELSE IF ~ok THEN Respond(p, "500")
         ELSE LET via == ResolveVia(e.client_reference_id, CustomerEmail[e.customer])
              IN  IF via = "done" THEN Respond(p, "200")
                  ELSE inv' = [inv EXCEPT ![p].userId = e.client_reference_id,
                                          ![p].pc = via]
  /\ UNCHANGED <<ledger, subs, anomalies, users, applied>>
  /\ UNCHANGED Others

\* getUserIdByEmail: the id of the identity, null when there is none or the
\* listing fails
getUserIdByEmail(email, ok) ==
  IF ok /\ users[email] # None THEN users[email] ELSE None

LookupUser(p, ok) ==
  /\ inv[p].pc = "lookup"
  /\ Call(ok)
  /\ LET existingUserId == getUserIdByEmail(CustomerEmail[inv[p].event.customer], ok)
     IN  inv' = [inv EXCEPT ![p].lookedUp = TRUE,
                            ![p].hadIdentity =
                              users[CustomerEmail[inv[p].event.customer]] # None,
                            ![p].userId = existingUserId,
                            ![p].pc = IF existingUserId # None
                                        THEN "interval" ELSE "create"]
  /\ UNCHANGED <<ledger, subs, anomalies, users, applied>>
  /\ UNCHANGED Others

\* createUser: users.create succeeds when the store answers and holds no
\* identity with this e-mail; otherwise createUser returns null
CreateUser(p, ok) ==
  /\ inv[p].pc = "create"
  /\ Call(ok)
  /\ LET email == CustomerEmail[inv[p].event.customer]
     IN  IF ok /\ users[email] = None
           THEN /\ users' = [users EXCEPT ![email] = NewUserId[email]]
                /\ inv' = [inv EXCEPT ![p].userId = NewUserId[email],
                                      ![p].createdUser = TRUE,
                                      ![p].wrote = TRUE,
                                      ![p].pc = "interval"]
           ELSE /\ Respond(p, "200")
                /\ UNCHANGED users
  /\ UNCHANGED <<ledger, subs, anomalies, applied>>
  /\ UNCHANGED Others

\* mutant: the fallback on session.mode is the wrong way round
IntervalOfModeSwapped(priceId, mode) ==
  IF priceId = monthlyPriceId THEN "monthly"
  ELSE IF priceId = yearlyPriceId THEN "yearly"
  ELSE IF mode = "subscription" THEN "yearly" ELSE "monthly"

\* switch (priceId), with the fallback on session.mode
IntervalOf(priceId, mode) ==
  IF priceId = monthlyPriceId THEN "monthly"
  ELSE IF priceId = yearlyPriceId THEN "yearly"
  ELSE IF mode = "subscription" THEN "monthly" ELSE "yearly"

KnownPrice(priceId) == priceId \in {monthlyPriceId, yearlyPriceId}

UnknownPriceAnomaly(e) ==
  [event_id |-> e.id, anomaly_type |-> "unknown_price_id",
   expected_value |-> 0, received_value |-> 0, difference_cents |-> 0,
   received_price_id |-> e.price]

ResolveInterval(p, ok) ==
  /\ inv[p].pc = "interval"
  /\ IF KnownPrice(inv[p].event.price) THEN ok /\ NoCall ELSE Call(ok)
  /\ LET e == inv[p].event
         logged == ~KnownPrice(e.price) /\ ok
     IN  /\ anomalies' = IF logged
                           THEN anomalies (+) SetToBag({UnknownPriceAnomaly(e)})
                           ELSE anomalies
         /\ inv' = [inv EXCEPT ![p].interval = IntervalOf(e.price, e.mode),
                               ![p].wrote = @ \/ logged,
                               ![p].logErr = IF ok THEN @ ELSE @ \cup {"unknown_price_id"},
                               ![p].pc = "mismatch"]
  /\ UNCHANGED <<ledger, subs, users, applied>>
  /\ UNCHANGED Others

PriceMismatchAnomaly(e, expectedAmount) ==
  [event_id |-> e.id, anomaly_type |-> "price_mismatch",
   expected_value |-> expectedAmount, received_value |-> e.amount_total,
   difference_cents |-> e.amount_total - expectedAmount,
   received_price_id |-> e.price]

\* mutant: only an overpayment counts as a mismatch
MismatchAbove(amount, expectedAmount) == amount > expectedAmount

\* amount !== expectedAmount
Mismatch(amount, expectedAmount) == amount # expectedAmount

\* mutant: the price_mismatch insert is outside its try/catch
CheckPriceUncaught(p, ok) ==
  /\ inv[p].pc = "mismatch"
  /\ IF Mismatch(inv[p].event.amount_total, CORRECT_PRICES[inv[p].interval])
       THEN Call(ok) ELSE ok /\ NoCall
  /\ LET e == inv[p].event
         expectedAmount == CORRECT_PRICES[inv[p].interval]
         logged == Mismatch(e.amount_total, expectedAmount) /\ ok
     IN  /\ anomalies' = IF logged
                           THEN anomalies (+) SetToBag({PriceMismatchAnomaly(e, expectedAmount)})
                           ELSE anomalies
         /\ IF ~ok THEN Respond(p, "500")
            ELSE inv' = [inv EXCEPT ![p].wrote = @ \/ logged,
                                    ![p].pc = "query"]
  /\ UNCHANGED <<ledger, subs, users, applied>>
  /\ UNCHANGED Others

CheckPrice(p, ok) ==
  /\ inv[p].pc = "mismatch"
  /\ IF Mismatch(inv[p].event.amount_total, CORRECT_PRICES[inv[p].interval])
       THEN Call(ok) ELSE ok /\ NoCall
  /\ LET e == inv[p].event
         expectedAmount == CORRECT_PRICES[inv[p].interval]
         logged == Mismatch(e.amount_total, expectedAmount) /\ ok
     IN  /\ anomalies' = IF logged
                           THEN anomalies (+) SetToBag({PriceMismatchAnomaly(e, expectedAmount)})
                           ELSE anomalies
         /\ inv' = [inv EXCEPT ![p].wrote = @ \/ logged,
                               ![p].logErr = IF ok THEN @ ELSE @ \cup {"price_mismatch"},
                               ![p].pc = "query"]
  /\ UNCHANGED <<ledger, subs, users, applied>>
  /\ UNCHANGED Others

\* mutant: without a match the query returns the first document there is
FirstWithOrFirst(field, value) ==
  LET matching == { i \in 1..Len(subs) : subs[i][field] = value }
  IN  IF matching = {} THEN (IF Len(subs) > 0 THEN 1 ELSE 0)
      ELSE CHOOSE i \in matching : \A j \in matching : i <= j

\* listDocuments(..., [Query.equal(field, value), Query.limit(1)]): the $id
\* of the first matching document, 0 when there is none
FirstWith(field, value) ==
  LET matching == { i \in 1..Len(subs) : subs[i][field] = value }
  IN  IF matching = {} THEN 0
      ELSE CHOOSE i \in matching : \A j \in matching : i <= j

FindExisting(p, ok) ==
  /\ inv[p].pc = "query"
  /\ Call(ok)
  /\ IF ~ok THEN Respond(p, "500")
     ELSE inv' = [inv EXCEPT ![p].existing = FirstWith("user_id", inv[p].userId),
                             ![p].pc = "write"]
  /\ UNCHANGED <<ledger, subs, anomalies, users, applied>>
  /\ UNCHANGED Others

OrEmpty(x) == IF x = None THEN "" ELSE x

\* mutant: the amount of the event is trusted
receivedAmount(interval, amount) == amount

validatedAmount(interval, amount) == CORRECT_PRICES[interval]

subscriptionData(e, userId, interval) ==
  [user_id |-> userId,
   stripe_customer_id |-> e.customer,
   stripe_payment_intent_id |-> OrEmpty(e.payment_intent),
   stripe_subscription_id |-> OrEmpty(e.subscription),
   status |-> "active",
   is_active |-> TRUE,
   amount |-> validatedAmount(interval, e.amount_total),
   currency |-> IF e.currency = None THEN "eur" ELSE e.currency,
   interval |-> interval,
   stripe_price_id |-> e.price,
   current_period_start |-> "now",
   current_period_end |-> IF interval = "yearly" THEN "now+365d" ELSE "now+30d"]

\* updateDocument merges the given fields into the document
Merge(doc, data) ==
  [f \in DOMAIN doc |-> IF f \in DOMAIN data THEN data[f] ELSE doc[f]]

\* createDocument: the new document has no activated_at yet
NewDocument(data) == data @@ [activated_at |-> None]

\* mutant: the result of the query is ignored
UpsertAlwaysCreate(existing, data) == Append(subs, NewDocument(data))

\* mutant: the write looks the user's document up again, atomically
UpsertByUser(existing, data) ==
  LET current == FirstWith("user_id", data.user_id)
  IN  IF current > 0
        THEN [subs EXCEPT ![current] = Merge(@, data)]
        ELSE Append(subs, NewDocument(data))

\* mutant: the update leaves the stored stripe_subscription_id as it is
UpsertKeepingSubscriptionId(existing, data) ==
  IF existing > 0
    THEN [subs EXCEPT ![existing] =
            [Merge(@, data) EXCEPT
               !.stripe_subscription_id = subs[existing].stripe_subscription_id]]
    ELSE Append(subs, NewDocument(data))

\* existingSubs.documents.length > 0 ? updateDocument : createDocument
Upsert(existing, data) ==
  IF existing > 0
    THEN [subs EXCEPT ![existing] = Merge(@, data)]
    ELSE Append(subs, NewDocument(data))

\* history: one more Subscription write for the event of p
Count(p) == [applied EXCEPT ![<<inv[p].event.id, inv[p].recorded>>] = @ + 1]

WriteSubscription(p, ok) ==
  /\ inv[p].pc = "write"
  /\ Call(ok)
  /\ IF ~ok
       THEN /\ Respond(p, "500")
            /\ UNCHANGED <<subs, applied>>
       ELSE /\ subs' = Upsert(inv[p].existing,
                              subscriptionData(inv[p].event, inv[p].userId,
                                               inv[p].interval))
            /\ applied' = Count(p)
            /\ inv' = [inv EXCEPT ![p].wrote = TRUE, ![p].pc = "email"]
  /\ UNCHANGED <<ledger, anomalies, users>>
  /\ UNCHANGED Others

\* mutant: the promise of sendWelcomeEmail has no .catch
SendWelcomeEmailUncaught(p, ok) ==
  /\ inv[p].pc = "email"
  /\ Call(ok)
  /\ inv' = [inv EXCEPT ![p].mail = IF ok THEN "sent" ELSE "failed",
                        ![p].pc = "done",
                        ![p].resp = IF ok THEN "200" ELSE "500"]
  /\ UNCHANGED <<ledger, subs, anomalies, users, applied>>
  /\ UNCHANGED Others

\* sendWelcomeEmail(...).catch(...): its outcome changes nothing
SendWelcomeEmail(p, ok) ==
  /\ inv[p].pc = "email"
  /\ Call(ok)
  /\ inv' = [inv EXCEPT ![p].mail = IF ok THEN "sent" ELSE "failed",
                        ![p].pc = "done", ![p].resp = "200"]
  /\ UNCHANGED <<ledger, subs, anomalies, users, applied>>
  /\ UNCHANGED Others

(***************************************************************************)
(* handler: the events keyed by stripe_subscription_id.                    *)
(***************************************************************************)
\* the listDocuments of customer.subscription.updated / .deleted and of
\* invoice.paid (which skips it when the invoice has no subscription)
FindBySubscriptionId(p, ok) ==
  /\ inv[p].pc = "sub_query"
  /\ IF inv[p].event.type = "invoice.paid" /\ inv[p].event.subscription = None
       THEN ok /\ NoCall ELSE Call(ok)
  /\ LET e == inv[p].event
         found == FirstWith("stripe_subscription_id", e.subscription)
     IN  IF e.type = "invoice.paid" /\ e.subscription = None
           THEN Respond(p, "200")
         ELSE IF ~ok THEN Respond(p, "500")
         ELSE IF found = 0 THEN Respond(p, "200")
         ELSE inv' = [inv EXCEPT ![p].existing = found, ![p].pc = "sub_write"]
  /\ UNCHANGED <<ledger, subs, anomalies, users, applied>>
  /\ UNCHANGED Others

\* mutant: is_active: subscription.status !== 'canceled'
IsActiveUnlessCanceled(status) == status # "canceled"

\* is_active: subscription.status === 'active'
IsActiveFor(status) == status = "active"

\* mutant: the period bounds are not written
UpdatedPatchWithoutPeriod(e) ==
  [status |-> e.status, is_active |-> IsActiveFor(e.status)]

UpdatedPatch(e) ==
  [status |-> e.status,
   is_active |-> IsActiveFor(e.status),
   current_period_start |-> IF e.item_period = None THEN "now" ELSE "reported_start",
   current_period_end |-> IF e.item_period = None THEN "now+30d" ELSE "reported_end"]

\* mutant: the cancellation forgets is_active
DeletedPatchStatusOnly == [status |-> "canceled"]

DeletedPatch == [status |-> "canceled", is_active |-> FALSE]

PaidPatch == [status |-> "active", is_active |-> TRUE]

\* the updateDocument of one of the three handlers
PatchSubscription(p, type, patch, ok) ==
  /\ inv[p].pc = "sub_write"
  /\ inv[p].event.type = type
  /\ Call(ok)
  /\ IF ~ok
       THEN /\ Respond(p, "500")
            /\ UNCHANGED <<subs, applied>>
       ELSE /\ subs' = [subs EXCEPT ![inv[p].existing] = Merge(@, patch)]
            /\ applied' = Count(p)
            /\ inv' = [inv EXCEPT ![p].wrote = TRUE, ![p].pc = "done",
                                  ![p].resp = "200"]
  /\ UNCHANGED <<ledger, anomalies, users>>
  /\ UNCHANGED Others

SubscriptionUpdated(p, ok) ==
  PatchSubscription(p, "customer.subscription.updated",
                    UpdatedPatch(inv[p].event), ok)

\* mutant: the cancellation removes the document
SubscriptionDeletedRemoving(p, ok) ==
  /\ inv[p].pc = "sub_write"
  /\ inv[p].event.type = "customer.subscription.deleted"
  /\ Call(ok)
  /\ IF ~ok
       THEN /\ Respond(p, "500")
            /\ UNCHANGED <<subs, applied>>
       ELSE /\ subs' = [i \in 1..(Len(subs) - 1) |->
                         IF i < inv[p].existing THEN subs[i] ELSE subs[i + 1]]
            /\ applied' = Count(p)
            /\ inv' = [inv EXCEPT ![p].wrote = TRUE, ![p].pc = "done",
                                  ![p].resp = "200"]
  /\ UNCHANGED <<ledger, anomalies, users>>
  /\ UNCHANGED Others

SubscriptionDeleted(p, ok) ==
  PatchSubscription(p, "customer.subscription.deleted", DeletedPatch, ok)

InvoicePaid(p, ok) == PatchSubscription(p, "invoice.paid", PaidPatch, ok)

\* mutant: the default arm throws on a type it does not know
AcknowledgeRejecting(p) ==
  /\ inv[p].pc = "ack"
  /\ Respond(p, IF inv[p].event.type = "invoice.payment_failed" THEN "200" ELSE "500")
  /\ NoCall
  /\ UNCHANGED <<ledger, subs, anomalies, users, applied>>
  /\ UNCHANGED Others

\* invoice.payment_failed and the default arm only log
Acknowledge(p) ==
  /\ inv[p].pc = "ack"
  /\ Respond(p, "200")
  /\ NoCall
  /\ UNCHANGED <<ledger, subs, anomalies, users, applied>>
  /\ UNCHANGED Others

(***************************************************************************)
(* reconcile-subscription: the authenticated user promotes the pending     *)
(* documents; the updates in failing throw and are skipped.                *)
(***************************************************************************)
\* mutant: the query lacks Query.equal('user_id', user.id)
PendingOfAnyUser(u) ==
  { i \in 1..Len(subs) : subs[i].is_active = FALSE /\ subs[i].status = "paid" }

Pending(u) ==
  { i \in 1..Len(subs) :
      subs[i].user_id = u /\ subs[i].is_active = FALSE /\ subs[i].status = "paid" }

ActivatePatch == [is_active |-> TRUE, activated_at |-> "now"]

Reconcile(u, failing) ==
  /\ reconciled.calls < MaxReconciles
  /\ \E m \in Emails : users[m] = u
  /\ failing \subseteq Pending(u)
  /\ Cardinality(failing) <= MaxFaults - faults
  /\ subs' = [i \in 1..Len(subs) |->
                IF i \in Pending(u) \ failing
                  THEN Merge(subs[i], ActivatePatch) ELSE subs[i]]
  /\ reconciled' = [calls |-> reconciled.calls + 1, user |-> u,
                    activated |-> Cardinality(Pending(u) \ failing)]
  /\ faults' = faults + Cardinality(failing)
  /\ UNCHANGED <<stripeEvents, stripeConfigured, ledger, anomalies, users, inv,
                 deliveries, applied, chat, limiter>>

(***************************************************************************)
(* extract.ts, the chat endpoint: free-tier enforcement around the call of *)
(* the model.  The requests are those of one user on one day.              *)
(***************************************************************************)
FREE_GENERATIONS_PER_DAY == 3

\* the user whose token the requests carry
ChatUser == "user_a"

\* what the chat endpoint leaves alone
Billing ==
  <<stripeEvents, stripeConfigured, ledger, subs, anomalies, users, inv,
    deliveries, applied, reconciled, limiter>>

ChatInFlight(c) == chat.req[c].pc \notin {"idle", "done"}

ChatRespond(c, r) == [chat EXCEPT !.req[c].pc = "done", !.req[c].resp = r]

\* the method check and the token check
ChatReceive(c, method, authenticated) ==
  /\ ~ChatInFlight(c) /\ \A d \in Procs : d < c => ChatInFlight(d)
  /\ chat.requests < MaxChats
  /\ LET counted == [chat EXCEPT !.requests = @ + 1, !.req[c] = IdleChat]
     IN  chat' = IF method # "POST" THEN [counted EXCEPT !.req[c].pc = "done",
                                                         !.req[c].resp = "405"]
                 ELSE IF ~authenticated THEN [counted EXCEPT !.req[c].pc = "done",
                                                             !.req[c].resp = "401"]
                 ELSE [counted EXCEPT !.req[c].pc = "subs"]
  /\ NoCall
  /\ UNCHANGED Billing

\* subs.documents.length > 0 for user_id = user.id, is_active = true
HasActiveSubscription(u) ==
  \E i \in 1..Len(subs) : subs[i].user_id = u /\ subs[i].is_active

ChatCheckSubscription(c, ok) ==
  /\ chat.req[c].pc = "subs"
  /\ Call(ok)
  /\ chat' = IF ~ok THEN ChatRespond(c, "500")
             ELSE [chat EXCEPT !.req[c].isPremium = HasActiveSubscription(ChatUser),
                               !.req[c].pc = IF HasActiveSubscription(ChatUser)
                                               THEN "model" ELSE "usage"]
  /\ UNCHANGED Billing

\* usage.documents.length, of a query with Query.limit(FREE_GENERATIONS_PER_DAY + 1)
UsageListed ==
  IF chat.usage > FREE_GENERATIONS_PER_DAY + 1
    THEN FREE_GENERATIONS_PER_DAY + 1 ELSE chat.usage

ChatCheckUsage(c, ok) ==
  /\ chat.req[c].pc = "usage"
  /\ Call(ok)
  /\ chat' = IF ~ok THEN ChatRespond(c, "500")
             ELSE IF UsageListed >= FREE_GENERATIONS_PER_DAY
               THEN ChatRespond(c, "429")
             ELSE [chat EXCEPT !.req[c].pc = "model"]
  /\ UNCHANGED Billing

\* body validation, the API key and the call of the model; after a successful
\* call of a free user the usage write is started and the response returned
ChatGenerate(c, outcome) ==
  /\ chat.req[c].pc = "model"
  /\ Call(outcome # "upstream")
  /\ chat' =
       CASE outcome = "invalid" -> ChatRespond(c, "400")
         [] outcome = "unconfigured" -> ChatRespond(c, "503")
         [] outcome = "upstream" -> ChatRespond(c, "503")
         [] outcome = "ok" ->
              IF chat.req[c].isPremium THEN ChatRespond(c, "200")
              ELSE [chat EXCEPT !.served = @ + 1, !.req[c].resp = "200",
                                !.req[c].pc = "record"]
  /\ UNCHANGED Billing

\* databases.createDocument(generation_usage).catch(() => {}): fire and forget
ChatRecordUsage(c, ok) ==
  /\ chat.req[c].pc = "record"
  /\ Call(ok)
  /\ chat' = [chat EXCEPT !.usage = IF ok THEN @ + 1 ELSE @,
                          !.req[c].pc = "done"]
  /\ UNCHANGED Billing

(***************************************************************************)
(* utils/rateLimit.ts: the in-memory limiter in front of the extract       *)
(* endpoint.  limiter.allowed is history: the number of calls per key and  *)
(* millisecond that were answered limited = false.                         *)
(***************************************************************************)
\* what the limiter leaves alone
Unlimited ==
  <<stripeEvents, stripeConfigured, ledger, subs, anomalies, users, inv,
    deliveries, faults, applied, reconciled, chat>>

\* checkRateLimit(`extract:${ip}`, { maxRequests, windowMs })
ExtractLimit == [maxRequests |-> MaxRequests, windowMs |-> WindowMs]

\* Date.now() moves on
Elapse ==
  /\ limiter.now < MaxClock
  /\ limiter' = [limiter EXCEPT !.now = @ + 1]
  /\ UNCHANGED Unlimited

\* prune(): at most once per interval, drop the entries whose window is over
Pruning(now) == ~(now - limiter.lastPrune < PruneInterval)

prune(now) ==
  IF ~Pruning(now) THEN limiter.store
  ELSE [k \in { j \in DOMAIN limiter.store : ~(now > limiter.store[j].resetAt) }
          |-> limiter.store[k]]

\* Math.ceil(ms / 1000)
CeilSeconds(ms) == IF ms <= 0 THEN 0 ELSE (ms + 999) \div 1000

\* store.get(key), an entry without a window when the key is not there
NoEntry == [count |-> 0, resetAt |-> -1]

Get(store, key) == IF key \in DOMAIN store THEN store[key] ELSE NoEntry

\* !entry || now > entry.resetAt
OpensWindow(entry, now) == entry = NoEntry \/ now > entry.resetAt

checkRateLimit(key, opts) ==
  /\ limiter.calls < MaxCalls
  /\ LET now     == limiter.now
         pruned  == prune(now)
         entry   == Get(pruned, key)
         opening == OpensWindow(entry, now)
         after   == IF opening
                      THEN [count |-> 1, resetAt |-> now + opts.windowMs]
                      ELSE [entry EXCEPT !.count = @ + 1]
         limited == ~opening /\ after.count > opts.maxRequests
     IN  limiter' =
           [limiter EXCEPT
              !.store = [k \in DOMAIN pruned \cup {key} |->
                           IF k = key THEN after ELSE pruned[k]],
              !.lastPrune = IF Pruning(now) THEN now ELSE @,
              !.calls = @ + 1,
              !.result = [key |-> key, limited |-> limited,
                          retryAfterSeconds |->
                            IF limited THEN CeilSeconds(after.resetAt - now)
                            ELSE 0],
              !.allowed[key][now] = IF limited THEN @ ELSE @ + 1]
  /\ UNCHANGED Unlimited

(***************************************************************************)
(* Specifications.                                                         *)
(***************************************************************************)
Methods == {"POST", "GET"}
Signatures == {None, "invalid", "valid"}
UserIds ==
  {AppUserId[m] : m \in DOMAIN AppUserId} \cup {NewUserId[m] : m \in Emails}

Deliver(p) ==
  \E method \in Methods, signature \in Signatures, e \in stripeEvents :
    Receive(p, method, signature, e)

Record(p) == \E outcome \in {"ok", "conflict", "error"} : LedgerInsert(p, outcome)

CheckoutStep(p) ==
  \/ \E ok \in BOOLEAN : RetrieveCustomer(p, ok)
  \/ \E ok \in BOOLEAN : LookupUser(p, ok)
  \/ \E ok \in BOOLEAN : CreateUser(p, ok)
  \/ \E ok \in BOOLEAN : ResolveInterval(p, ok)
  \/ \E ok \in BOOLEAN : CheckPrice(p, ok)
  \/ \E ok \in BOOLEAN : FindExisting(p, ok)
  \/ \E ok \in BOOLEAN : WriteSubscription(p, ok)
  \/ \E ok \in BOOLEAN : SendWelcomeEmail(p, ok)

OtherStep(p) ==
  \/ \E ok \in BOOLEAN : FindBySubscriptionId(p, ok)
  \/ \E ok \in BOOLEAN : SubscriptionUpdated(p, ok)
  \/ \E ok \in BOOLEAN : SubscriptionDeleted(p, ok)
  \/ \E ok \in BOOLEAN : InvoicePaid(p, ok)
  \/ Acknowledge(p)

Step(p) == Record(p) \/ CheckoutStep(p) \/ OtherStep(p)

Environment ==
  \/ \E m \in Emails : SignUp(m)
  \/ \E u \in UserIds : \E failing \in SUBSET Pending(u) : Reconcile(u, failing)

\* deliveries may overlap
Next ==
  \/ \E p \in Procs : Deliver(p)
  \/ \E p \in Procs : Step(p)
  \/ Environment

Spec == Init /\ [][Next]_vars

\* deliveries are handled one at a time
DeliverAlone(p) ==
  /\ \A q \in Procs : ~InFlight(q)
  /\ Deliver(p)

NextSeq ==
  \/ \E p \in Procs : DeliverAlone(p)
  \/ \E p \in Procs : Step(p)
  \/ Environment

InitSeq ==
  /\ stripeEvents = Catalogue
  /\ stripeConfigured \in BOOLEAN
  /\ Fresh

\* one checkout event of any shape, delivered and redelivered
InitCheckout ==
  /\ stripeEvents \in { {e} : e \in AllCheckouts }
  /\ stripeConfigured = TRUE
  /\ Fresh

SpecSeq == InitSeq /\ [][NextSeq]_vars

NextCheckout ==
  \/ \E p \in Procs : DeliverAlone(p)
  \/ \E p \in Procs : Record(p)
  \/ \E p \in Procs : CheckoutStep(p)
  \/ Environment

SpecCheckout == InitCheckout /\ [][NextCheckout]_vars

\* the events of one subscription's life, handled one at a time
InitLifecycle ==
  /\ stripeEvents = Lifecycle
  /\ stripeConfigured = TRUE
  /\ Fresh

SpecLifecycle == InitLifecycle /\ [][NextSeq]_vars

\* a document of the subscriptions collection as the reconcile endpoint may
\* find it: written by a checkout, then set to a status and an is_active
StoredDocument(userId, status, active) ==
  Merge(NewDocument(subscriptionData(
          CheckoutEvent("evt_co1", "cus_a", monthlyPriceId, MonthlyAmount, None,
                        "subscription", "sub_1", "eur"),
          userId, "monthly")),
        [status |-> status, is_active |-> active])

StoredDocuments ==
  { StoredDocument(u, st, act) :
      u \in {"user_a", "new_b"}, st \in {"paid", "active", "canceled"},
      act \in BOOLEAN }

\* the reconcile endpoint called on a collection that holds documents, of
\* signed-in users
InitReconcile ==
  /\ stripeEvents = {}
  /\ stripeConfigured = TRUE
  /\ ledger = EmptyBag
  /\ subs \in UNION { [1..n -> StoredDocuments] : n \in 0..MaxStored }
  /\ anomalies = EmptyBag
  /\ users = ("a@example.com" :> "user_a") @@ ("b@example.com" :> "new_b")
  /\ inv = [p \in Procs |-> Idle]
  /\ deliveries = 0
  /\ faults = 0
  /\ applied = NoWrites
  /\ reconciled = [calls |-> 0, user |-> None, activated |-> 0]
  /\ chat = NoChat
  /\ limiter = NoLimiter

NextReconcile ==
  \E u \in UserIds : \E failing \in SUBSET Pending(u) : Reconcile(u, failing)

SpecReconcile == InitReconcile /\ [][NextReconcile]_vars

\* the chat endpoint, called by a user with no subscription, a canceled one or
\* an active one
InitChat ==
  /\ stripeEvents = {}
  /\ stripeConfigured = TRUE
  /\ ledger = EmptyBag
  /\ subs \in { <<>>, <<StoredDocument(ChatUser, "canceled", FALSE)>>,
                 <<StoredDocument(ChatUser, "active", TRUE)>> }
  /\ anomalies = EmptyBag
  /\ users = ("a@example.com" :> ChatUser) @@ ("b@example.com" :> None)
  /\ inv = [p \in Procs |-> Idle]
  /\ deliveries = 0
  /\ faults = 0
  /\ applied = NoWrites
  /\ reconciled = [calls |-> 0, user |-> None, activated |-> 0]
  /\ chat = NoChat
  /\ limiter = NoLimiter

ChatStep(c) ==
  \/ \E method \in Methods, authenticated \in BOOLEAN :
       ChatReceive(c, method, authenticated)
  \/ \E ok \in BOOLEAN : ChatCheckSubscription(c, ok)
  \/ \E ok \in BOOLEAN : ChatCheckUsage(c, ok)
  \/ \E outcome \in {"ok", "invalid", "unconfigured", "upstream"} :
       ChatGenerate(c, outcome)
  \/ \E ok \in BOOLEAN : ChatRecordUsage(c, ok)

NextChat == \E c \in Procs : ChatStep(c)

SpecChat == InitChat /\ [][NextChat]_vars

\* the limiter alone: calls for two keys as the clock moves on
InitRate ==
  /\ stripeEvents = {}
  /\ stripeConfigured = TRUE
  /\ Fresh

NextRate ==
  \/ Elapse
  \/ \E k \in RateKeys : checkRateLimit(k, ExtractLimit)

SpecRate == InitRate /\ [][NextRate]_vars

(***************************************************************************)
(* Properties.                                                             *)
(***************************************************************************)
Done(p) == inv[p].pc = "done"

RecordsOf(id) ==
  LET docs == { d \in BagToSet(ledger) : d.event_id = id }
      RECURSIVE Sum(_)
      Sum(S) == IF S = {} THEN 0
                ELSE LET d == CHOOSE x \in S : TRUE
                     IN  CopiesIn(d, ledger) + Sum(S \ {d})
  IN  Sum(docs)

WritesFor(id) ==
  applied[<<id, "ok">>] + applied[<<id, "conflict">>] + applied[<<id, "error">>]

\* C1 as stated: however often an event is delivered, the ledger holds at
\* most one record of it and its Subscription write is applied at most once.
C1_AppliedOnce ==
  \A id \in EventIds : RecordsOf(id) <= 1 /\ WritesFor(id) <= 1

\* C1, amended: the ledger never holds two records of one event; a delivery
\* whose insert hits the uniqueness conflict answers 200 duplicate and writes
\* nothing; so the deliveries whose insert succeeded or conflicted apply the
\* event's Subscription write at most once.  (A delivery whose insert failed
\* with another error is processed as a new event and may apply it again.)
C1_IdempotentUnlessFailOpen ==
  /\ \A id \in EventIds :
       /\ RecordsOf(id) <= 1
       /\ applied[<<id, "ok">>] + applied[<<id, "conflict">>] <= 1
  /\ \A p \in Procs :
       inv[p].recorded = "conflict" =>
         Done(p) /\ inv[p].resp = "200 duplicate" /\ ~inv[p].wrote

\* the same event delivered twice: one delivery wrote, the other was a duplicate
C1_Witness ==
  \E p, q \in Procs :
    /\ p # q /\ Done(p) /\ Done(q)
    /\ inv[p].event.id = inv[q].event.id
    /\ inv[p].recorded = "ok" /\ inv[p].wrote /\ WritesFor(inv[p].event.id) = 1
    /\ inv[q].resp = "200 duplicate"

DocsOf(u) == { i \in 1..Len(subs) : subs[i].user_id = u }

\* C3: with deliveries handled one at a time, no two Subscription documents
\* share a user_id, and right after a checkout write the user has exactly one
\* document, which is active.
C3_OneDocumentPerUser ==
  /\ \A i, j \in 1..Len(subs) : subs[i].user_id = subs[j].user_id => i = j
  /\ \A p \in Procs :
       inv[p].pc = "email" =>
         /\ Cardinality(DocsOf(inv[p].userId)) = 1
         /\ \A i \in DocsOf(inv[p].userId) : subs[i].is_active

\* two checkout events of one user have both written, into one document
C3_Witness ==
  /\ applied[<<"evt_co1", "ok">>] = 1
  /\ applied[<<"evt_co2", "ok">>] = 1
  /\ Len(subs) = 1

\* C4: a checkout handler that read "no document for this user" creates a
\* document when it writes, whatever the collection holds by then; so two
\* overlapping checkouts of a new user leave two documents with one user_id.
C4_StaleReadCreates ==
  [][\A p \in Procs :
       (inv[p].pc = "write" /\ inv'[p].pc = "email" /\ inv[p].existing = 0)
         => Len(subs') = Len(subs) + 1]_vars

\* two recorded checkout events, no failed call, two documents of one user
C4_Witness ==
  /\ faults = 0
  /\ \E i, j \in 1..Len(subs) : i # j /\ subs[i].user_id = subs[j].user_id
  /\ \E p, q \in Procs :
       /\ p # q /\ inv[p].event.id # inv[q].event.id
       /\ inv[p].recorded = "ok" /\ inv[q].recorded = "ok"
       /\ inv[p].event.type = "checkout.session.completed"
       /\ inv[q].event.type = "checkout.session.completed"

\* the document the checkout write of p went to
WrittenDoc(p) == IF inv[p].existing > 0 THEN inv[p].existing ELSE Len(subs)

\* the canonical amount of the interval p resolved
Expected(p) == IF inv[p].interval = "monthly" THEN MonthlyAmount ELSE YearlyAmount

\* C5: right after a checkout write the document holds the canonical amount
\* of the resolved interval, whatever amount the event carried.
C5_CanonicalAmountStored ==
  \A p \in Procs :
    inv[p].pc = "email" =>
      /\ subs[WrittenDoc(p)].interval = inv[p].interval
      /\ subs[WrittenDoc(p)].amount = Expected(p)

\* a yearly checkout that carried an amount which is no canonical amount
C5_Witness ==
  \E p \in Procs :
    /\ inv[p].pc = "email"
    /\ inv[p].event.price = yearlyPriceId
    /\ inv[p].event.amount_total = 100
    /\ subs[WrittenDoc(p)].amount = YearlyAmount

\* p has run the price check
PastPrice(p) == inv[p].interval # None /\ inv[p].pc # "mismatch"

AnomaliesOf(id, type) ==
  { a \in BagToSet(anomalies) : a.event_id = id /\ a.anomaly_type = type }

\* C6 as stated: once the price check has run, a price_mismatch record of
\* the event exists exactly when the received amount differs from the
\* canonical one.
C6_RecordIffMismatch ==
  \A p \in Procs :
    PastPrice(p) =>
      (AnomaliesOf(inv[p].event.id, "price_mismatch") # {}
         <=> inv[p].event.amount_total # Expected(p))

\* C6, amended: a price_mismatch record is written exactly when the amounts
\* differ and the write itself does not fail (a failing write is caught and
\* only logged); a record carries expected_value = canonical amount,
\* received_value = received amount, difference_cents = received - expected;
\* with equal amounts there is no record.
C6_RecordIffMismatchUnlessWriteFails ==
  \A p \in Procs :
    PastPrice(p) =>
      LET e == inv[p].event
          records == AnomaliesOf(e.id, "price_mismatch")
      IN  /\ \A a \in records :
               /\ a.expected_value = Expected(p)
               /\ a.received_value = e.amount_total
               /\ a.difference_cents = e.amount_total - Expected(p)
          /\ e.amount_total = Expected(p) => records = {}
          /\ (e.amount_total # Expected(p) /\ "price_mismatch" \notin inv[p].logErr)
               => records # {}
          /\ "price_mismatch" \in inv[p].logErr => e.amount_total # Expected(p)

\* the yearly price paid with the monthly amount
C6_Witness ==
  \E p \in Procs :
    /\ PastPrice(p)
    /\ inv[p].event.price = yearlyPriceId
    /\ inv[p].event.amount_total = MonthlyAmount
    /\ \E a \in AnomaliesOf(inv[p].event.id, "price_mismatch") :
         a.difference_cents = MonthlyAmount - YearlyAmount

\* the interval the claim names for a price id and a mode
ClaimedInterval(e) ==
  CASE e.price = monthlyPriceId -> "monthly"
    [] e.price = yearlyPriceId -> "yearly"
    [] OTHER -> IF e.mode = "subscription" THEN "monthly" ELSE "yearly"

\* C7 as stated: the interval is resolved by price id, and for any other
\* price id an unknown_price_id record exists and the mode decides.
C7_IntervalAndRecord ==
  \A p \in Procs :
    inv[p].interval # None =>
      /\ inv[p].interval = ClaimedInterval(inv[p].event)
      /\ ~KnownPrice(inv[p].event.price)
           => AnomaliesOf(inv[p].event.id, "unknown_price_id") # {}

\* C7, amended: the interval is resolved by price id, for any other price id
\* by the mode; for such a price id an unknown_price_id record is written
\* unless that write fails (caught and only logged); either way the step does
\* not throw: the handler goes on to the price check.
C7_IntervalAndRecordUnlessWriteFails ==
  /\ [](\A p \in Procs :
          inv[p].interval # None =>
            /\ inv[p].interval = ClaimedInterval(inv[p].event)
            /\ (~KnownPrice(inv[p].event.price)
                  /\ "unknown_price_id" \notin inv[p].logErr)
                 => AnomaliesOf(inv[p].event.id, "unknown_price_id") # {})
  /\ [][\A p \in Procs :
          (inv[p].pc = "interval" /\ inv'[p] # inv[p])
            => inv'[p].pc = "mismatch"]_vars

\* an unknown price id in subscription mode
C7_Witness ==
  \E p \in Procs :
    /\ inv[p].pc = "mismatch"
    /\ inv[p].event.price = OtherPriceId
    /\ inv[p].event.mode = "subscription"
    /\ inv[p].interval = "monthly"
    /\ AnomaliesOf(inv[p].event.id, "unknown_price_id") # {}

\* p is a POST whose signature header is missing or does not verify
BadSignature(p) == inv[p].method = "POST" /\ inv[p].signature # "valid"

Untouched(p) ==
  /\ inv[p].recorded = None /\ inv[p].event = NoEvent
  /\ ~inv[p].wrote /\ ~inv[p].lookedUp /\ ~inv[p].createdUser

\* C8 as stated: a POST without a valid signature is answered with 400 and has
\* written nothing.
C8_BadSignature400 ==
  \A p \in Procs :
    BadSignature(p) => Done(p) /\ inv[p].resp = "400" /\ Untouched(p)

\* C8, amended: a POST without a valid signature is answered with 400 when the
\* Stripe secrets are configured (with 500 when they are not, which is checked
\* first) and in both cases has no side effects: no ledger, anomaly, identity
\* or Subscription write.
C8_BadSignatureRejected ==
  /\ [](\A p \in Procs :
          BadSignature(p) =>
            /\ Done(p) /\ Untouched(p)
            /\ inv[p].resp = IF stripeConfigured THEN "400" ELSE "500 config")
  /\ [][\A p \in Procs :
          (inv'[p] # inv[p] /\ inv'[p].method = "POST"
             /\ inv'[p].signature # "valid")
            => UNCHANGED <<ledger, subs, anomalies, users, applied>>]_vars

\* a request with an invalid signature is rejected while the collections hold
\* documents
C8_Witness ==
  \E p \in Procs :
    /\ inv[p].signature = "invalid" /\ inv[p].method = "POST"
    /\ inv[p].resp = "400"
    /\ Len(subs) > 0 /\ ledger # EmptyBag

\* C9: an insert into processed_webhooks that fails without a uniqueness
\* conflict lets the handler go on to the handler of the event's type and
\* answer as for a new event; only the conflict ends the request with
\* 200 duplicate, and then nothing is written.
C9_FailOpenOnLedgerError ==
  /\ [](\A p \in Procs :
          /\ (Done(p) /\ inv[p].resp = "200 duplicate") <=> inv[p].recorded = "conflict"
          /\ inv[p].recorded = "conflict" => ~inv[p].wrote /\ ~inv[p].lookedUp
          /\ (Done(p) /\ inv[p].recorded = "error") => inv[p].resp \in {"200", "500"})
  /\ [][\A p \in Procs :
          (inv[p].pc = "ledger" /\ inv'[p].recorded \in {"ok", "error"})
            => /\ inv'[p].pc \in {"checkout", "sub_query", "ack"}
               /\ inv'[p].resp = None
               /\ (inv'[p].pc = "checkout")
                    <=> (inv[p].event.type = "checkout.session.completed")]_vars

\* a delivery whose ledger insert failed has written a Subscription and
\* answered 200
C9_Witness ==
  \E p \in Procs :
    /\ Done(p) /\ inv[p].recorded = "error"
    /\ inv[p].wrote /\ inv[p].resp = "200"
    /\ applied[<<inv[p].event.id, "error">>] = 1

\* p has a user id for the Subscription
Resolved(p) == inv[p].pc = "interval" \/ inv[p].interval # None

EmailOf(p) ==
  IF inv[p].event.customer \in Customers
    THEN CustomerEmail[inv[p].event.customer] ELSE None

\* C10 as stated: a client reference is used without a lookup; otherwise an
\* identity that exists for the customer's e-mail is used; otherwise one new
\* identity is created and its id is used.
C10_Precedence ==
  \A p \in Procs :
    /\ inv[p].event.client_reference_id # None =>
         /\ ~inv[p].lookedUp
         /\ Resolved(p) => inv[p].userId = inv[p].event.client_reference_id
    /\ (inv[p].lookedUp /\ inv[p].hadIdentity) =>
         inv[p].userId = users[EmailOf(p)]
    /\ (inv[p].lookedUp /\ ~inv[p].hadIdentity /\ inv[p].pc # "create") =>
         /\ inv[p].createdUser
         /\ inv[p].userId = NewUserId[EmailOf(p)]

\* C10, amended: a client reference is used without a lookup; otherwise the
\* e-mail is looked up and an id the lookup returns is used; when the lookup
\* returns none, which it also does when the call fails, the creation of an
\* identity is attempted: if it succeeds the generated id is used, if it
\* fails (store error, or the e-mail has an identity) the handler stops and
\* writes nothing.  A written Subscription carries the resolved user id.
C10_PrecedenceUnlessCallFails ==
  \A p \in Procs :
    /\ inv[p].event.client_reference_id # None =>
         /\ ~inv[p].lookedUp /\ ~inv[p].createdUser
         /\ Resolved(p) => inv[p].userId = inv[p].event.client_reference_id
    /\ (inv[p].event.client_reference_id = None /\ Resolved(p)) =>
         /\ inv[p].lookedUp
         /\ inv[p].userId # None
         /\ inv[p].userId = users[EmailOf(p)]
         /\ inv[p].createdUser <=> ~inv[p].hadIdentity
         /\ inv[p].createdUser => inv[p].userId = NewUserId[EmailOf(p)]
    /\ inv[p].pc = "create" => inv[p].lookedUp /\ inv[p].userId = None
    /\ (inv[p].lookedUp /\ ~Resolved(p) /\ Done(p)) =>
         /\ inv[p].resp = "200" /\ ~inv[p].wrote /\ inv[p].userId = None
    /\ inv[p].pc = "email" => subs[WrittenDoc(p)].user_id = inv[p].userId

\* a checkout without client reference has created an identity and written
\* the Subscription of that identity
C10_Witness ==
  \E p \in Procs :
    /\ inv[p].pc = "email"
    /\ inv[p].event.client_reference_id = None
    /\ inv[p].createdUser
    /\ subs[WrittenDoc(p)].user_id = NewUserId[EmailOf(p)]

\* the event of p has the session data but no client reference
NoReference(p) ==
  /\ inv[p].event.type = "checkout.session.completed"
  /\ ~MissingSessionData(inv[p].event)
  /\ inv[p].event.client_reference_id = None

\* C11: a checkout event without client reference from whose customer no user
\* can be derived (the customer has no e-mail, or no identity is found and the
\* creation fails) creates or modifies no Subscription document, and the
\* handler answers 200 {received:true}.
C11_NoUserNoSubscription ==
  /\ [](\A p \in Procs :
          /\ (Done(p) /\ NoReference(p) /\ inv[p].lookedUp /\ inv[p].userId = None)
               => inv[p].resp = "200" /\ ~inv[p].wrote
          /\ (NoReference(p) /\ EmailOf(p) = None)
               => ~inv[p].wrote /\ ~inv[p].lookedUp /\ subs = <<>>)
  /\ [][\A p \in Procs :
          /\ (NoReference(p) /\ EmailOf(p) = None /\ inv[p].pc = "checkout"
                 /\ inv'[p] # inv[p] /\ faults' = faults)
               => /\ inv'[p].pc = "done" /\ inv'[p].resp = "200"
                  /\ UNCHANGED <<subs, users, anomalies>>
          /\ (inv[p].pc = "create" /\ inv'[p] # inv[p] /\ ~inv'[p].createdUser)
               => /\ inv'[p].pc = "done" /\ inv'[p].resp = "200"
                  /\ UNCHANGED <<subs, users, anomalies>>]_vars

\* the customer's e-mail has no identity and the creation of one failed
C11_Witness ==
  \E p \in Procs :
    /\ Done(p) /\ NoReference(p)
    /\ inv[p].lookedUp /\ ~inv[p].hadIdentity /\ ~inv[p].createdUser
    /\ inv[p].resp = "200" /\ subs = <<>>

\* the types the switch has an arm for
HandledTypes ==
  {"checkout.session.completed", "customer.subscription.updated",
   "customer.subscription.deleted", "invoice.paid", "invoice.payment_failed"}

\* p has accepted (signature verified) an event of a type without an arm
Unhandled(p) ==
  inv[p].event # NoEvent /\ inv[p].event.type \notin HandledTypes

\* C12: a correctly signed event of a type that is none of the five handled
\* ones is answered with 200 {received:true} (with duplicate:true added when
\* the ledger reports it as a replay), and no step of its invocation changes
\* the subscriptions collection, the webhook_anomalies collection or the
\* identity store.
C12_UnhandledAcknowledged ==
  /\ [](\A p \in Procs :
          Unhandled(p) =>
            /\ ~inv[p].wrote /\ ~inv[p].lookedUp /\ ~inv[p].createdUser
            /\ inv[p].pc \in {"ledger", "ack", "done"}
            /\ Done(p) => inv[p].resp = IF inv[p].recorded = "conflict"
                                          THEN "200 duplicate" ELSE "200")
  /\ [][\A p \in Procs :
          (inv'[p] # inv[p] /\ inv'[p].event # NoEvent
             /\ inv'[p].event.type \notin HandledTypes)
            => UNCHANGED <<subs, anomalies, users>>]_vars

\* charge.succeeded is acknowledged while the collections hold documents
C12_Witness ==
  \E p \in Procs :
    /\ Done(p) /\ Unhandled(p)
    /\ inv[p].recorded = "ok" /\ inv[p].resp = "200"
    /\ Len(subs) > 0 /\ anomalies # EmptyBag

\* p is the invocation of a customer.subscription.deleted event
Cancelling(p) == inv[p].event.type = "customer.subscription.deleted"

\* C13: the write of a customer.subscription.deleted event sets the matching
\* document to status = "canceled", is_active = FALSE and changes nothing
\* else; when the document is already in that state (a cancellation was
\* applied before, by the same or another event) the write leaves the
\* collection exactly as it was.
C13_CancelTwice ==
  /\ [](\A p \in Procs :
          (Done(p) /\ Cancelling(p) /\ inv[p].wrote /\ \A q \in Procs : ~InFlight(q))
            => /\ subs[inv[p].existing].status = "canceled"
               /\ subs[inv[p].existing].is_active = FALSE)
  /\ [][\A p \in Procs :
          (Cancelling(p) /\ inv[p].pc = "sub_write" /\ inv'[p].wrote)
            => LET k == inv[p].existing
               IN  /\ subs[k].stripe_subscription_id = inv[p].event.subscription
                   /\ subs' = [subs EXCEPT ![k].status = "canceled",
                                           ![k].is_active = FALSE]
                   /\ (subs[k].status = "canceled" /\ ~subs[k].is_active)
                        => subs' = subs]_vars

\* two cancellation events of one subscription have both been applied
C13_Witness ==
  /\ applied[<<"evt_del1", "ok">>] = 1
  /\ applied[<<"evt_del2", "ok">>] = 1
  /\ subs[1].status = "canceled" /\ subs[1].is_active = FALSE

\* no Subscription document carries the subscription id of p's event
Orphan(p) ==
  /\ inv[p].event.type \in {"customer.subscription.updated",
                             "customer.subscription.deleted"}
  /\ \A i \in 1..Len(subs) :
       subs[i].stripe_subscription_id # inv[p].event.subscription

\* C14: when the query of a customer.subscription.updated or .deleted event
\* finds no document with the event's stripe_subscription_id, the handler
\* changes no document, throws nothing and answers 200 {received:true}.
C14_OrphanAcknowledged ==
  [][\A p \in Procs :
       (inv[p].pc = "sub_query" /\ Orphan(p) /\ inv'[p] # inv[p]
          /\ faults' = faults)
         => /\ inv'[p].pc = "done" /\ inv'[p].resp = "200"
            /\ ~inv'[p].wrote /\ inv'[p].existing = 0
            /\ UNCHANGED <<subs, anomalies, users, applied>>]_vars

\* an update of sub_1 was acknowledged while the only document is of sub_2
C14_Witness ==
  \E p \in Procs :
    /\ Done(p) /\ Orphan(p)
    /\ inv[p].event.type = "customer.subscription.updated"
    /\ inv[p].recorded = "ok" /\ inv[p].resp = "200"
    /\ Len(subs) > 0

\* document i is one the reconcile query of user u selects
InFilter(i, u) ==
  subs[i].user_id = u /\ subs[i].is_active = FALSE /\ subs[i].status = "paid"

\* C15: a call of the reconcile endpoint by user u changes only documents
\* with user_id = u, is_active = FALSE and status = "paid"; each of them
\* whose update succeeds gets is_active = TRUE (and activated_at) and nothing
\* else changed; the ones left are exactly the failed updates; and the
\* response's activated is the number of documents promoted.
C15_ReconcilePromotes ==
  [][reconciled'.calls # reconciled.calls =>
       LET u == reconciled'.user
           selected == { i \in 1..Len(subs) : InFilter(i, u) }
           promoted == { i \in 1..Len(subs) : subs'[i] # subs[i] }
       IN  /\ Len(subs') = Len(subs)
           /\ promoted \subseteq selected
           /\ \A i \in promoted :
                subs'[i] = [subs[i] EXCEPT !.is_active = TRUE,
                                           !.activated_at = "now"]
           /\ Cardinality(selected \ promoted) = faults' - faults
           /\ reconciled'.activated = Cardinality(promoted)]_vars

\* of two pending documents of the caller one was promoted and one update
\* failed, and another user's pending document is as it was
C15_Witness ==
  /\ reconciled.calls = 1 /\ reconciled.activated = 1 /\ faults = 1
  /\ \E i, j, k \in 1..Len(subs) :
       /\ subs[i].user_id = reconciled.user /\ subs[i].status = "paid"
       /\ subs[i].is_active /\ subs[i].activated_at = "now"
       /\ InFilter(j, reconciled.user)
       /\ subs[k].user_id # reconciled.user /\ subs[k].status = "paid"
       /\ ~subs[k].is_active

\* the awaited calls of the type-specific handlers that no try/catch of their
\* own surrounds: a failure of one of them reaches the handler's catch block
Throwing == {"checkout", "query", "write", "sub_query", "sub_write"}

\* C16: the response is decided in this order: not POST -> 405; Stripe
\* secrets not configured -> 500; signature missing or invalid -> 400; ledger
\* uniqueness conflict -> 200 {received:true, duplicate:true}; a call of the
\* type-specific handler threw -> 500; anything else (unhandled type, orphan
\* event, unresolvable identity, caught failures) -> 200 {received:true}.
C16_ResponseOrder ==
  /\ [](\A p \in Procs :
          Done(p) =>
            IF inv[p].method # "POST" THEN inv[p].resp = "405"
            ELSE IF ~stripeConfigured THEN inv[p].resp = "500 config"
            ELSE IF inv[p].signature # "valid" THEN inv[p].resp = "400"
            ELSE IF inv[p].recorded = "conflict" THEN inv[p].resp = "200 duplicate"
            ELSE inv[p].resp \in {"500", "200"})
  /\ [][\A p \in Procs :
          (InFlight(p) /\ inv'[p].pc = "done") =>
            inv'[p].resp =
              IF inv[p].pc = "ledger" THEN "200 duplicate"
              ELSE IF inv[p].pc \in Throwing /\ faults' # faults THEN "500"
              ELSE "200"]_vars
  /\ [][\A p \in Procs :
          (InFlight(p) /\ inv[p].pc \in Throwing /\ inv'[p] # inv[p]
             /\ faults' # faults)
            => inv'[p].pc = "done"]_vars

\* a configured deployment has answered a signed POST with 500 after the
\* event was recorded
C16_Witness ==
  \E p \in Procs :
    /\ Done(p) /\ inv[p].resp = "500"
    /\ inv[p].method = "POST" /\ inv[p].signature = "valid"
    /\ inv[p].recorded = "ok" /\ ~inv[p].wrote

\* C17 as stated: a user without an active subscription gets at most 3
\* successful generations a day from the chat endpoint, concurrent requests
\* included.  (Stated for the runs in which no call has failed: the limit
\* is then a matter of the order of the check and the usage write alone.)
C17_AtMostThreeFreeGenerations ==
  (faults = 0 /\ ~HasActiveSubscription(ChatUser))
    => chat.served <= FREE_GENERATIONS_PER_DAY

\* C18 as stated: when a delivery of e ended with 500 because the handler
\* threw before the Subscription write, and e is delivered again while every
\* call succeeds, the redelivery is processed (it is not answered as a
\* duplicate) and, e being a checkout of a resolvable user, its Subscription
\* write is applied exactly once.
C18_RetryAfter500Applied ==
  \A p \in Procs :
    (Done(p) /\ inv[p].retry /\ faults = 1) =>
      /\ inv[p].resp = "200"
      /\ inv[p].event.type = "checkout.session.completed"
           => WritesFor(inv[p].event.id) = 1

\* document k is canceled, and a customer.subscription.deleted event of its
\* stripe_subscription_id has been applied
CanceledByDeletion(k) ==
  /\ subs[k].status = "canceled" /\ subs[k].is_active = FALSE
  /\ \E e \in stripeEvents :
       /\ e.type = "customer.subscription.deleted"
       /\ e.subscription = subs[k].stripe_subscription_id
       /\ WritesFor(e.id) > 0

\* C19 as stated: once customer.subscription.deleted has set a document to
\* status = "canceled", is_active = FALSE, only the write of a
\* checkout.session.completed makes it active again; no invoice.paid and no
\* customer.subscription.updated does.
C19_CanceledIsTerminal ==
  [][\A k \in 1..Len(subs) :
       (CanceledByDeletion(k)
          /\ (subs'[k].is_active \/ subs'[k].status = "active"))
         => \E p \in Procs : inv[p].pc = "write" /\ inv'[p].pc = "email"]_vars

\* C20 as stated: in every reachable state the status of every Subscription
\* document is one of active, canceled, past_due, trial, whatever status the
\* customer.subscription.updated events report.
C20_StatusInEnum ==
  \A i \in 1..Len(subs) : subs[i].status \in SubscriptionStatus

\* the document the reconcile endpoint scans for
PendingDocument(i) == subs[i].is_active = FALSE /\ subs[i].status = "paid"

\* p is a checkout that ended without a user to associate with
Unassociated(p) ==
  /\ Done(p) /\ NoReference(p)
  /\ inv[p].recorded \in {"ok", "error"}
  /\ inv[p].resp = "200" /\ inv[p].userId = None

\* C21 as stated: webhook processing of a checkout event that could not
\* associate with its user at write time leaves a Subscription document with
\* is_active = FALSE and status = "paid", the state the reconcile endpoint
\* scans for.
C21_UnassociatedCheckoutPending ==
  \A p \in Procs :
    Unassociated(p) => \E i \in 1..Len(subs) : PendingDocument(i)

\* C22: the write of a customer.subscription.updated event that matched a
\* document by stripe_subscription_id sets, in one write, status to the
\* reported status, is_active to (reported status = "active") and the period
\* bounds to the reported period fields (to now and now + 30 days when the
\* event reports none), and leaves every other field of the document and
\* every other document as they were.
C22_UpdateWritesStatusAndPeriod ==
  [][\A p \in Procs :
       (inv[p].event.type = "customer.subscription.updated"
          /\ inv[p].pc = "sub_write" /\ inv'[p].wrote)
         => LET k == inv[p].existing
                e == inv[p].event
                reported == e.item_period # None
            IN  /\ subs[k].stripe_subscription_id = e.subscription
                /\ subs' =
                     [subs EXCEPT
                        ![k].status = e.status,
                        ![k].is_active = (e.status = "active"),
                        ![k].current_period_start =
                          IF reported THEN "reported_start" ELSE "now",
                        ![k].current_period_end =
                          IF reported THEN "reported_end" ELSE "now+30d"]]_vars

\* an update that reports past_due and a period has been applied to the
\* document of a monthly checkout
C22_Witness ==
  /\ applied[<<"evt_up1", "ok">>] = 1
  /\ \E k \in 1..Len(subs) :
       /\ subs[k].stripe_subscription_id = "sub_1"
       /\ subs[k].status = "past_due" /\ subs[k].is_active = FALSE
       /\ subs[k].current_period_end = "reported_end"
       /\ subs[k].amount = MonthlyAmount /\ subs[k].interval = "monthly"

\* the checkout and the cancellation of sub_1 have each been delivered once,
\* one at a time, and handled without a failing call; the checkout resolved
\* its user and wrote the Subscription; nothing else was sent
CheckoutAndCancellationHandled ==
  /\ deliveries = 2 /\ faults = 0
  /\ \A p \in Procs : ~InFlight(p)
  /\ Recorded("evt_co1") /\ Recorded("evt_del1")
  /\ applied[<<"evt_co1", "ok">>] = 1

\* C23 as stated: whichever of the checkout and the cancellation of one
\* stripe_subscription_id is delivered first, the user ends with one
\* Subscription document with status = "canceled", is_active = FALSE.
C23_OrderIndependent ==
  CheckoutAndCancellationHandled =>
    /\ Len(subs) = 1
    /\ subs[1].status = "canceled" /\ subs[1].is_active = FALSE

\* p is in the type-specific handler: identity lookup or creation, anomaly
\* write, Subscription read or write, notification
InHandler(p) ==
  inv[p].pc \in {"checkout", "lookup", "create", "interval", "mismatch",
                 "query", "write", "email", "sub_query", "sub_write", "ack"}

\* C24: within one invocation the insert into processed_webhooks has
\* completed (success or error; a conflict ends the request) before any
\* identity lookup or creation, anomaly write or Subscription read or write
\* starts, and nothing of that, nor the insert, happens before the signature
\* has been verified.
C24_LedgerBeforeBusinessLogic ==
  /\ [](\A p \in Procs :
          /\ InHandler(p) => inv[p].recorded \in {"ok", "error"}
          /\ (InHandler(p) \/ inv[p].pc = "ledger" \/ inv[p].recorded # None)
               => /\ inv[p].method = "POST" /\ inv[p].signature = "valid"
                  /\ stripeConfigured /\ inv[p].event # NoEvent
          /\ inv[p].recorded \in {None, "conflict"}
               => /\ ~inv[p].wrote /\ ~inv[p].lookedUp /\ ~inv[p].createdUser
                  /\ inv[p].userId = None /\ inv[p].interval = None
                  /\ inv[p].existing = 0 /\ inv[p].mail = None)
  /\ [][\A p \in Procs :
          (inv'[p] # inv[p] /\ inv[p].pc \in {"idle", "done", "ledger"})
            => UNCHANGED <<subs, anomalies, users, applied>>]_vars

\* an invocation whose insert succeeded is writing the Subscription
C24_Witness ==
  \E p \in Procs :
    /\ inv[p].pc = "write" /\ inv[p].recorded = "ok"
    /\ inv[p].lookedUp /\ Recorded(inv[p].event.id)

\* C25: the welcome notification of a checkout is attempted only after the
\* Subscription create or update has succeeded, never when that write threw
\* or the handler stopped earlier; whether the notification succeeds or
\* fails, the written Subscription stays as it is and the response is
\* 200 {received:true}.
C25_NotificationAfterWrite ==
  /\ [](\A p \in Procs :
          /\ (inv[p].pc = "email" \/ inv[p].mail # None)
               => /\ inv[p].event.type = "checkout.session.completed"
                  /\ inv[p].userId # None
                  /\ WritesFor(inv[p].event.id) >= 1
                  /\ subs[WrittenDoc(p)].user_id = inv[p].userId
          /\ inv[p].mail # None => Done(p) /\ inv[p].resp = "200"
          /\ (Done(p) /\ inv[p].resp # "200") => inv[p].mail = None)
  /\ [][\A p \in Procs :
          /\ (inv[p].pc # "email" /\ inv'[p].pc = "email")
               => inv[p].pc = "write" /\ faults' = faults /\ applied' # applied
          /\ (inv[p].pc = "email" /\ inv'[p] # inv[p])
               => /\ subs' = subs
                  /\ inv'[p].pc = "done" /\ inv'[p].resp = "200"
                  /\ inv'[p].mail = IF faults' = faults THEN "sent" ELSE "failed"]_vars

\* the notification failed after the Subscription was written
C25_Witness ==
  \E p \in Procs :
    /\ Done(p) /\ inv[p].mail = "failed" /\ inv[p].resp = "200"
    /\ subs[WrittenDoc(p)].is_active
    /\ subs[WrittenDoc(p)].user_id = inv[p].userId

\* an invocation without what only the outcome of its anomaly writes decides
WithoutAnomalyOutcome(r) == [r EXCEPT !.logErr = {}, !.wrote = FALSE]

\* C26: for a checkout.session.completed with a resolvable user, the
\* Subscription written and the response do not depend on whether the
\* webhook_anomalies writes succeed: the two anomaly steps go on to the next
\* step with the same interval and without a response either way, touch no
\* Subscription, and the document written afterwards is the one the
\* event alone determines.
C26_AnomalyWriteNeverAlters ==
  /\ [][\A p \in Procs :
          (inv[p].pc \in {"interval", "mismatch"} /\ inv'[p] # inv[p])
            => /\ WithoutAnomalyOutcome(inv'[p]) =
                    WithoutAnomalyOutcome(
                      [inv[p] EXCEPT
                         !.interval = IntervalOf(inv[p].event.price, inv[p].event.mode),
                         !.pc = IF inv[p].pc = "interval" THEN "mismatch" ELSE "query"])
               /\ inv'[p].resp = None
               /\ UNCHANGED <<subs, users, ledger, applied>>]_vars
  /\ [](\A p \in Procs :
          (inv[p].pc = "email" \/ inv[p].mail # None)
            => /\ subs[WrittenDoc(p)] =
                    Merge(subs[WrittenDoc(p)],
                          subscriptionData(inv[p].event, inv[p].userId,
                                           IntervalOf(inv[p].event.price,
                                                      inv[p].event.mode)))
               /\ inv[p].resp \in {None, "200"})

\* an anomaly write failed and the checkout was applied and acknowledged
C26_Witness ==
  \E p \in Procs :
    /\ Done(p) /\ inv[p].resp = "200" /\ inv[p].logErr # {}
    /\ inv[p].mail # None
    /\ subs[WrittenDoc(p)].is_active
    /\ subs[WrittenDoc(p)].amount = CORRECT_PRICES[inv[p].interval]
    /\ BagCardinality(anomalies) = 0

\* C27: no step of the webhook handler or of the reconcile endpoint removes
\* a Subscription document or changes or removes a processed_webhooks
\* record: every document id stays (with its owner), every ledger record
\* stays as it was, and a cancellation patches status and is_active of the
\* document it found and removes nothing.
C27_NothingIsDeleted ==
  [][/\ Len(subs') >= Len(subs)
     /\ \A i \in 1..Len(subs) : subs'[i].user_id = subs[i].user_id
     /\ ledger \sqsubseteq ledger'
     /\ \A p \in Procs :
          ( /\ inv[p].pc = "sub_write" /\ inv'[p] # inv[p]
            /\ inv[p].event.type = "customer.subscription.deleted"
            /\ inv'[p].resp = "200" )
            => subs' = [subs EXCEPT ![inv[p].existing] =
                          [@ EXCEPT !.status = "canceled", !.is_active = FALSE]]]_vars

\* a cancellation was applied: the document is still there, canceled
C27_Witness ==
  \E p \in Procs :
    /\ Done(p) /\ inv[p].event.type = "customer.subscription.deleted"
    /\ inv[p].resp = "200" /\ inv[p].existing \in 1..Len(subs)
    /\ subs[inv[p].existing].status = "canceled"
    /\ ~subs[inv[p].existing].is_active
    /\ BagCardinality(ledger) >= 2

RECURSIVE AllowedIn(_, _, _)
\* the calls for key k answered limited = false in the n milliseconds from t
AllowedIn(k, t, n) ==
  IF n = 0 \/ t > MaxClock THEN 0
  ELSE limiter.allowed[k][t] + AllowedIn(k, t + 1, n - 1)

\* C28: checkRateLimit enforces a sliding window per key: in every interval
\* of windowMs milliseconds at most maxRequests calls for one key are
\* answered limited = false.
C28_SlidingWindow ==
  \A k \in RateKeys : \A t \in 0..MaxClock :
    AllowedIn(k, t, ExtractLimit.windowMs) <= ExtractLimit.maxRequests

\* a finished delivery of a checkout whose session lacks customer, price or amount
Incomplete(p) ==
  /\ Done(p) /\ inv[p].event.type = "checkout.session.completed"
  /\ \/ inv[p].event.customer = None
     \/ inv[p].event.price = None
     \/ inv[p].event.amount_total = 0

\* no Subscription, identity or anomaly record came from the invocation
NothingWritten(p) ==
  /\ ~inv[p].wrote /\ ~inv[p].createdUser /\ ~inv[p].lookedUp
  /\ subs = <<>> /\ anomalies = EmptyBag /\ applied = NoWrites

\* C29 as stated: a checkout without customer id, price id or amount is
\* answered 200 and writes nothing; its event id is recorded by then, so every
\* redelivery is answered as duplicate.
C29_IncompleteThenDuplicate ==
  \A p \in Procs :
    Incomplete(p) =>
      /\ inv[p].resp \in {"200", "200 duplicate"}
      /\ NothingWritten(p)
      /\ Recorded(inv[p].event.id)
      /\ inv[p].redelivery => inv[p].resp = "200 duplicate"

\* C29, amended: such a checkout is answered 200 (or 200 duplicate) and
\* writes no Subscription, identity or anomaly record on any delivery.  Its
\* event id is recorded when the insert of the delivery succeeded, and a
\* delivery that finds the record is answered as duplicate; a redelivery
\* processed again follows a delivery whose insert failed.
C29_IncompleteNeverWrites ==
  /\ [](\A p \in Procs :
          Incomplete(p) =>
            /\ inv[p].resp \in {"200", "200 duplicate"}
            /\ NothingWritten(p)
            /\ inv[p].recorded = "ok" => Recorded(inv[p].event.id)
            /\ inv[p].resp = "200 duplicate" <=> inv[p].recorded = "conflict"
            /\ (inv[p].redelivery /\ inv[p].resp = "200") => faults >= 1)
  /\ [][\A p \in Procs :
          ( /\ inv[p].pc = "ledger" /\ inv'[p] # inv[p] /\ faults' = faults
            /\ Recorded(inv[p].event.id) )
            => inv'[p].pc = "done" /\ inv'[p].resp = "200 duplicate"]_vars

\* after a failed insert the redelivery is processed again and changes nothing
C29_Witness ==
  \E p \in Procs :
    /\ Incomplete(p) /\ inv[p].redelivery
    /\ inv[p].resp = "200" /\ inv[p].recorded = "ok"
    /\ inv[p].event.amount_total = 0 /\ NothingWritten(p)

\* p handles an event that is keyed by stripe_subscription_id
Keyed(p) ==
  inv[p].event.type \in {"customer.subscription.updated",
                         "customer.subscription.deleted", "invoice.paid"}

\* C30: once a newer checkout has overwritten the user's document with its
\* stripe_subscription_id s2, a late event keyed by the previous id s1 does
\* not change it: the checkout leaves the document with the id it carried,
\* and a keyed event only ever patches a document that holds the event's own
\* stripe_subscription_id, every other document staying as it is.
C30_LateEventOfOldSubscription ==
  /\ [](\A p \in Procs :
          /\ inv[p].pc = "email"
               => /\ subs[WrittenDoc(p)].stripe_subscription_id =
                       OrEmpty(inv[p].event.subscription)
                  /\ subs[WrittenDoc(p)].status = "active"
                  /\ subs[WrittenDoc(p)].is_active
          /\ (Keyed(p) /\ inv[p].pc = "sub_write")
               => /\ inv[p].existing \in 1..Len(subs)
                  /\ subs[inv[p].existing].stripe_subscription_id =
                       inv[p].event.subscription)
  /\ [][\A p \in Procs :
          (Keyed(p) /\ inv'[p] # inv[p])
            => /\ Len(subs') = Len(subs)
               /\ \A i \in 1..Len(subs) :
                    subs[i].stripe_subscription_id # inv[p].event.subscription
                      => subs'[i] = subs[i]]_vars

\* two checkouts of one user were applied, then the cancellation of the
\* first subscription arrives: the document of the second one stays active
C30_Witness ==
  \E p \in Procs :
    /\ Done(p) /\ inv[p].event.id = "evt_del1" /\ inv[p].resp = "200"
    /\ inv[p].recorded = "ok" /\ ~inv[p].wrote
    /\ applied[<<"evt_co1", "ok">>] = 1 /\ applied[<<"evt_co2", "ok">>] = 1
    /\ Len(subs) = 1
    /\ subs[1].stripe_subscription_id = "sub_2"
    /\ subs[1].status = "active" /\ subs[1].is_active

====
